---- MODULE Spec2Model ----
(***************************************************************************)
(* Model of telegram-media-deserialize (src/src/main.rs).                  *)
(*                                                                         *)
(* One run of main: open the serialized source, create the destination,    *)
(* scan the slice/part headers (get_info), sort and analyse the catalog    *)
(* (order_and_report_info), then copy every part to its destination offset *)
(* (write_to_deserialized_file / read_part).                               *)
(*                                                                         *)
(* Environment assumptions: seek, stream_position and write_all do not     *)
(* fail with an I/O error; File::read never returns Err (at end of file it *)
(* returns Ok(0), as std::fs::File does); unwritten holes of the           *)
(* destination read as zero.                                               *)
(***************************************************************************)
EXTENDS Integers, Sequences, FiniteSets, TLC

VARIABLES
    gen,            \* the slices and the ending the source file was built from (history)
    src_state,      \* source path: "ok" | "missing" | "unreadable"
    src_bytes,      \* content of the serialized file
    dst,            \* destination path: [exists, len, data]
    pc,             \* position of the run
    err,            \* kind of the error the run returned, "" if none
    pos,            \* cursor of the source file handle
    metadata_len,   \* self.metadata.len()
    in_offset,      \* get_info: in_offset
    slice_i,        \* get_info: slice_i
    parts,          \* get_info: parts of the current slice
    read_parts,     \* get_info: read_parts
    ret_vec,        \* get_info: ret_vec, the catalog in discovery order
    stop_reason,    \* why the scan ended: "" | "end" | "eof" | "bad_count" | "bad_size"
    info,           \* the catalog after order_and_report_info
    report,         \* the summary order_and_report_info prints
    wi,             \* write loop: index of the descriptor being copied
    part_buf,       \* read_part: part_buf
    part_bytes,     \* write_to_deserialized_file: part_bytes, the last part read
    n,              \* read_part: n of the last read, -1 before the first
    headers         \* the headers the scan has decoded, [at, len] each (history)

vars == <<gen, src_state, src_bytes, dst, pc, err, pos, metadata_len, in_offset,
          slice_i, parts, read_parts, ret_vec, stop_reason, info, report, wi,
          part_buf, part_bytes, n, headers>>

-----------------------------------------------------------------------------
(* Program constants *)

MAX_PARTS_COUNT == 80
MAX_PART_SIZE == 131072
RdBufLen == 4096
Limb == 65536       \* a u32 is two 16-bit limbs: TLC's integers end at 2^31 - 1

(* Bounds of the model *)

MaxParts == 2       \* well-formed parts in the generated source file
MaxDest == 2        \* small destination offsets 0..MaxDest (plus 2^32 - 1) in a file
MaxSize == 2        \* payload sizes 1..MaxSize of well-formed parts
MaxChunk == 2       \* longest chunk one read of the transport returns
MaxCatalog == 3     \* descriptors of a catalog given to the analyzer directly
MaxCatalogDest == 3 \* small destination offsets of such a catalog

Min(a, b) == IF a < b THEN a ELSE b
Max(a, b) == IF a > b THEN a ELSE b

-----------------------------------------------------------------------------
(* Offsets: out_offset is a u32 and the destination is addressed with a u64. *)
(* A number is the record [hi, lo] of value hi * 2^16 + lo, 0 <= lo < 2^16; *)
(* it is a u32 iff hi < 2^16.                                               *)

W(h, l) == [hi |-> h, lo |-> l]

WNorm(h, l) == [hi |-> h + (l \div Limb), lo |-> l % Limb]

\* the number of a small non-negative integer
WOfInt(v) == WNorm(0, v)

\* w + k for a small non-negative integer k, without wrapping
WAddInt(w, k) == WNorm(w.hi, w.lo + k)

WLess(a, b) == a.hi < b.hi \/ (a.hi = b.hi /\ a.lo < b.lo)

WLeq(a, b) == a = b \/ WLess(a, b)

WMax(a, b) == IF WLess(a, b) THEN b ELSE a

\* a - b for b <= a
WSub(a, b) ==
    IF a.lo >= b.lo THEN W(a.hi - b.hi, a.lo - b.lo)
    ELSE W(a.hi - b.hi - 1, a.lo + Limb - b.lo)

IsU32(w) == w.hi < Limb

U32Max == W(Limb - 1, Limb - 1)

\* w > k for a small non-negative integer k
GtInt(w, k) == WLess(WOfInt(k), w)

\* the integer of a number below 2^31
ToInt(w) == w.hi * Limb + w.lo

-----------------------------------------------------------------------------
(* Header Decoder *)

\* u32::to_le_bytes, used to build source files
U32LE(w) == << w.lo % 256, w.lo \div 256, w.hi % 256, w.hi \div 256 >>

\* faulty variant: reads the four bytes big-endian
FromBeBytes(b) == W(b[2] + 256 * b[1], b[4] + 256 * b[3])

\* u32::from_le_bytes(self.b4_buf)
FromLeBytes(b) == W(b[3] + 256 * b[4], b[1] + 256 * b[2])

\* the four bytes read_exact delivers at offset p (0-based) of the file
BytesAt(bytes, p, k) == SubSeq(bytes, p + 1, p + k)

\* _read_u32_le succeeds iff four bytes remain at the cursor
CanReadU32(bytes, p) == p + 4 <= Len(bytes)

ReadU32(bytes, p) == FromLeBytes(BytesAt(bytes, p, 4))

\* faulty variant: accepts an empty slice
BadPartsCountNoZero(c) == GtInt(c, MAX_PARTS_COUNT)

\* parts == 0 || parts > MAX_PARTS_COUNT
BadPartsCount(c) == c = WOfInt(0) \/ GtInt(c, MAX_PARTS_COUNT)

\* faulty variant: accepts an empty part
BadPartSizeNoZero(s) == GtInt(s, MAX_PART_SIZE)

\* part_size == 0 || part_size > MAX_PART_SIZE
BadPartSize(s) == s = WOfInt(0) \/ GtInt(s, MAX_PART_SIZE)

-----------------------------------------------------------------------------
(* Source files: slice := part_count:u32 part{part_count},                 *)
(*               part := dest_offset:u32 size:u32 payload:byte[size]       *)
(* (format described in the header comment of main.rs)                     *)

DestVals(m) == {WOfInt(d) : d \in 0..m} \cup {U32Max}

PartChoices(m) == [out_offset : DestVals(m), part_size : 1..MaxSize]

\* payload bytes of the i-th part: distinct for every part and position
Payload(i, s) == [k \in 1..s |-> (64 * i + k) % 256]

Fill(k, b) == [i \in 1..k |-> b]

SliceStart(g, i) == i = 1 \/ (i - 1) \in g.cuts

SliceEnd(g, i) ==
    CHOOSE j \in i..Len(g.parts) :
        /\ j = Len(g.parts) \/ j \in g.cuts
        /\ \A k \in i..(j - 1) : k \notin g.cuts

\* parts the ending declares in its slice: the broken one and, after a bad
\* size, one more that the scan must abandon
DeclaredExtra(e) == IF e.kind = "badsize" THEN 2 ELSE 1

\* part_count written in the header of the slice that begins at part i
DeclaredCount(g, i) ==
    SliceEnd(g, i) - i + 1
      + (IF SliceEnd(g, i) = Len(g.parts) /\ g.ending.open
         THEN DeclaredExtra(g.ending) ELSE 0)

PartBytes(g, i) ==
    U32LE(g.parts[i].out_offset) \o U32LE(WOfInt(g.parts[i].part_size))
      \o Payload(i, g.parts[i].part_size)

RECURSIVE GoodBytes(_, _)
GoodBytes(g, i) ==
    IF i > Len(g.parts) THEN << >>
    ELSE (IF SliceStart(g, i) THEN U32LE(WOfInt(DeclaredCount(g, i))) ELSE << >>)
           \o PartBytes(g, i) \o GoodBytes(g, i + 1)

\* a well-formed slice of one part, placed after an invalid header
ValidSlice == U32LE(WOfInt(1)) \o U32LE(WOfInt(0)) \o U32LE(WOfInt(1)) \o << 7 >>

\* header of the slice the broken part is in, unless it continues the last slice
TailSliceHeader(e) == IF e.open THEN << >> ELSE U32LE(WOfInt(DeclaredExtra(e)))

\* a well-formed part, placed after a part header of invalid size
RemainingPart == U32LE(WOfInt(0)) \o U32LE(WOfInt(1)) \o << 7 >>

TailBytes(e) ==
    CASE e.kind = "clean"        -> << >>
      [] e.kind = "shorthdr"     -> Fill(e.avail, 1)
      [] e.kind = "badcount"     -> U32LE(WOfInt(e.val)) \o ValidSlice
      [] e.kind = "eofparthdr"   -> TailSliceHeader(e) \o Fill(e.avail, 1)
      [] e.kind = "badsize"      -> TailSliceHeader(e) \o U32LE(WOfInt(0)) \o U32LE(WOfInt(e.val)) \o RemainingPart
      [] e.kind = "shortpayload" -> TailSliceHeader(e) \o U32LE(WOfInt(0)) \o U32LE(WOfInt(e.val)) \o Fill(e.avail, 9)

Encode(g) == GoodBytes(g, 1) \o TailBytes(g.ending)

Ending(k, o, v, a) == [kind |-> k, open |-> o, val |-> v, avail |-> a]

CleanEnding == Ending("clean", FALSE, 0, 0)

Endings ==
    {CleanEnding}
      \cup {Ending("shorthdr", FALSE, 0, a) : a \in {1, 3}}
      \cup {Ending("badcount", FALSE, c, 0) : c \in {0, MAX_PARTS_COUNT + 1}}
      \cup {Ending("eofparthdr", FALSE, 0, 0), Ending("eofparthdr", TRUE, 0, 0),
             Ending("eofparthdr", TRUE, 0, 5)}
      \cup {Ending("badsize", o, s, 0) : o \in BOOLEAN, s \in {0, MAX_PART_SIZE + 1}}
      \cup {Ending("shortpayload", TRUE, 2, 1),
             Ending("shortpayload", FALSE, MAX_PART_SIZE, 0)}

\* g is a source file of k well-formed parts, cut into slices, with an ending
IsGen(g, k) ==
    \E ps \in [1..k -> PartChoices(MaxDest)], cs \in SUBSET (1..(k - 1)), e \in Endings :
        /\ e.open => k > 0
        /\ g = [parts |-> ps, cuts |-> cs, ending |-> e]

\* g is one well-formed slice of k parts, or the empty file if k = 0
IsOneSliceGen(g, k) ==
    \E ps \in [1..k -> PartChoices(MaxCatalogDest)] :
        g = [parts |-> ps, cuts |-> {}, ending |-> CleanEnding]

EmptyGen == [parts |-> << >>, cuts |-> {}, ending |-> CleanEnding]

\* offset in the file of the payload of the i-th well-formed part
RECURSIVE PayloadOffset(_, _)
PayloadOffset(g, i) ==
    (IF i = 1 THEN 0
     ELSE PayloadOffset(g, i - 1) + g.parts[i - 1].part_size)
      + (IF SliceStart(g, i) THEN 4 ELSE 0) + 8

\* the descriptors of the well-formed parts, in file order
GoodCatalog(g) ==
    [i \in 1..Len(g.parts) |->
        [in_offset |-> PayloadOffset(g, i),
         out_offset |-> g.parts[i].out_offset,
         part_size |-> g.parts[i].part_size]]

-----------------------------------------------------------------------------
(* Ordering & Contiguity Analyzer: order_and_report_info *)

\* faulty variant: puts a descriptor before the ones of equal out_offset
RECURSIVE InsertBeforeEqual(_, _)
InsertBeforeEqual(s, x) ==
    IF s = << >> THEN << x >>
    ELSE IF WLess(Head(s).out_offset, x.out_offset)
         THEN << Head(s) >> \o InsertBeforeEqual(Tail(s), x)
         ELSE << x >> \o s

\* one insertion of the stable sort: x goes after every descriptor whose key is <= its key
RECURSIVE InsertByKey(_, _)
InsertByKey(s, x) ==
    IF s = << >> THEN << x >>
    ELSE IF WLeq(Head(s).out_offset, x.out_offset)
         THEN << Head(s) >> \o InsertByKey(Tail(s), x)
         ELSE << x >> \o s

\* info.sort_by_key(|pi| pi.out_offset), a stable sort
RECURSIVE SortByKey(_)
SortByKey(v) ==
    IF v = << >> THEN << >>
    ELSE InsertByKey(SortByKey(SubSeq(v, 1, Len(v) - 1)), v[Len(v)])

\* out_offset + part_size as a mathematical sum
EndOf(pi) == WAddInt(pi.out_offset, pi.part_size)

\* u32 addition and subtraction of a build without overflow checks
WrapU32(w) == W(w.hi % Limb, w.lo)
WrapAdd(a, k) == WrapU32(WAddInt(a, k))
WrapSub(a, b) == IF WLeq(b, a) THEN WSub(a, b) ELSE WSub(W(a.hi + Limb, a.lo), b)

\* the loop of lines 185..192; i and the result are the 0-based indices of the code
RECURSIVE LastContiguousI(_, _, _)
LastContiguousI(v, i, lc) ==
    IF i >= Len(v) THEN lc
    ELSE LastContiguousI(v, i + 1,
            IF v[i + 1].out_offset = WrapAdd(v[i].out_offset, v[i].part_size)
            THEN i ELSE lc)

NoReport == [analysed |-> FALSE, last_contigous_i |-> 0,
             last_contiguous_offset |-> WOfInt(0), discontinuity_len |-> WOfInt(0)]

\* the values of lines 194..198 in wrapping arithmetic
Report(v) ==
    LET lc  == LastContiguousI(v, 1, 0)
        lco == WrapAdd(v[lc + 1].out_offset, v[lc + 1].part_size)
    IN  [analysed |-> TRUE, last_contigous_i |-> lc,
         last_contiguous_offset |-> lco,
         discontinuity_len |-> WrapSub(v[Len(v)].out_offset, lco)]

\* some sum out_offset + part_size of lines 189, 197 leaves the range of u32
SumOverflows(v) ==
    \/ \E i \in 1..(Len(v) - 1) : ~IsU32(EndOf(v[i]))
    \/ ~IsU32(EndOf(v[LastContiguousI(v, 1, 0) + 1]))

\* some u32 operation of lines 189, 197, 198 leaves the range of u32
ArithmeticOverflows(v) ==
    \/ SumOverflows(v)
    \/ WLess(v[Len(v)].out_offset, EndOf(v[LastContiguousI(v, 1, 0) + 1]))

-----------------------------------------------------------------------------
(* Destination file *)

Absent == [exists |-> FALSE, len |-> WOfInt(0), data |-> [p \in {} |-> 0]]

Created == [exists |-> TRUE, len |-> WOfInt(0), data |-> [p \in {} |-> 0]]

\* a file that is already at the destination path
Existing == [exists |-> TRUE, len |-> WOfInt(1), data |-> [p \in {WOfInt(0)} |-> 9]]

\* the k positions from off on
Range(off, k) == {WAddInt(off, j) : j \in 0..(k - 1)}

\* faulty variant: a byte that was written once is never written again
WriteAtKeepOld(d, off, bytes) ==
    [exists |-> TRUE,
     len    |-> WMax(d.len, WAddInt(off, Len(bytes))),
     data   |-> [p \in (DOMAIN d.data) \cup Range(off, Len(bytes)) |->
                    IF p \in DOMAIN d.data
                    THEN d.data[p] ELSE bytes[ToInt(WSub(p, off)) + 1]]]

\* faulty variant: sets the length to the end of the last write
WriteAtLastEnd(d, off, bytes) ==
    [exists |-> TRUE,
     len    |-> WAddInt(off, Len(bytes)),
     data   |-> [p \in (DOMAIN d.data) \cup Range(off, Len(bytes)) |->
                    IF p \in Range(off, Len(bytes))
                    THEN bytes[ToInt(WSub(p, off)) + 1] ELSE d.data[p]]]

\* seek(SeekFrom::Start(off)) and write_all(bytes) on the destination
WriteAt(d, off, bytes) ==
    [exists |-> TRUE,
     len    |-> WMax(d.len, WAddInt(off, Len(bytes))),
     data   |-> [p \in (DOMAIN d.data) \cup Range(off, Len(bytes)) |->
                    IF p \in Range(off, Len(bytes))
                    THEN bytes[ToInt(WSub(p, off)) + 1] ELSE d.data[p]]]

\* byte p of the destination; a hole reads as zero
DstByte(d, p) == IF p \in DOMAIN d.data THEN d.data[p] ELSE 0

-----------------------------------------------------------------------------
(* Initial states *)

RunDefaults ==
    /\ err = ""
    /\ pos = 0
    /\ metadata_len = 0
    /\ in_offset = 0
    /\ slice_i = 0
    /\ parts = 0
    /\ read_parts = 0
    /\ stop_reason = ""
    /\ info = << >>
    /\ report = NoReport
    /\ wi = 1
    /\ part_buf = << >>
    /\ part_bytes = << >>
    /\ n = -1
    /\ headers = << >>

\* before main runs: any source path, any destination path
Init ==
    /\ \/ /\ src_state = "ok"
          /\ \E k \in 0..MaxParts : IsGen(gen, k)
          /\ src_bytes = Encode(gen)
       \/ /\ src_state \in {"missing", "unreadable"}
          /\ gen = EmptyGen
          /\ src_bytes = << >>
    /\ dst \in {Absent, Existing}
    /\ pc = "main"
    /\ ret_vec = << >>
    /\ RunDefaults

\* after the scan of a source file that is one well-formed slice (or empty)
InitOrder ==
    /\ src_state = "ok"
    /\ \E k \in 0..MaxCatalog : IsOneSliceGen(gen, k)
    /\ src_bytes = Encode(gen)
    /\ dst = Created
    /\ pc = "order"
    /\ err = ""
    /\ pos = Len(src_bytes)
    /\ metadata_len = Len(src_bytes)
    /\ in_offset = Len(src_bytes)
    /\ slice_i = IF Len(gen.parts) > 0 THEN 1 ELSE 0
    /\ parts = Len(gen.parts)
    /\ read_parts = Len(gen.parts)
    /\ ret_vec = GoodCatalog(gen)
    /\ stop_reason = "end"
    /\ info = << >>
    /\ report = NoReport
    /\ wi = 1
    /\ part_buf = << >>
    /\ part_bytes = << >>
    /\ n = -1
    /\ headers = IF Len(gen.parts) = 0 THEN << >>
                 ELSE << [at |-> 0, len |-> 4] >>
                        \o [i \in 1..Len(gen.parts) |->
                               [at |-> PayloadOffset(gen, i) - 8, len |-> 8]]

\* at the call of get_info (line 292): both files are open, the destination
\* was created empty, nothing was read yet
InitScan ==
    /\ src_state = "ok"
    /\ \E k \in 0..MaxParts : IsGen(gen, k)
    /\ src_bytes = Encode(gen)
    /\ dst = Created
    /\ pc = "get_info"
    /\ err = ""
    /\ pos = 0
    /\ metadata_len = Len(src_bytes)
    /\ in_offset = 0
    /\ slice_i = 0
    /\ parts = 0
    /\ read_parts = 0
    /\ ret_vec = << >>
    /\ stop_reason = ""
    /\ info = << >>
    /\ report = NoReport
    /\ wi = 1
    /\ part_buf = << >>
    /\ part_bytes = << >>
    /\ n = -1
    /\ headers = << >>

-----------------------------------------------------------------------------
(* main, lines 290..291 *)

\* SerializedFile::from_name: fails unless the path exists and opens for read
SerializedFile_from_name ==
    /\ pc = "main"
    /\ IF src_state # "ok"
       THEN /\ pc' = "failed"
            /\ err' = "PathError"
            /\ UNCHANGED metadata_len
       ELSE /\ pc' = "open_dst"
            /\ metadata_len' = Len(src_bytes)
            /\ UNCHANGED err
    /\ UNCHANGED <<gen, src_state, src_bytes, dst, pos, in_offset, slice_i, parts,
                   read_parts, ret_vec, stop_reason, info, report, wi, part_buf,
                   part_bytes, n, headers>>

\* faulty variant: opens the destination with create and truncate
DeserializedFromNameTruncate ==
    /\ pc = "open_dst"
    /\ dst' = Created
    /\ pc' = "get_info"
    /\ UNCHANGED <<gen, src_state, src_bytes, err, pos, metadata_len, in_offset,
                   slice_i, parts, read_parts, ret_vec, stop_reason, info, report,
                   wi, part_buf, part_bytes, n, headers>>

\* DeserializedFile::from_name: fails if the path exists, else create_new
DeserializedFile_from_name ==
    /\ pc = "open_dst"
    /\ IF dst.exists
       THEN /\ pc' = "failed"
            /\ err' = "PathError"
            /\ UNCHANGED dst
       ELSE /\ pc' = "get_info"
            /\ dst' = Created
            /\ UNCHANGED err
    /\ UNCHANGED <<gen, src_state, src_bytes, pos, metadata_len, in_offset,
                   slice_i, parts, read_parts, ret_vec, stop_reason, info, report,
                   wi, part_buf, part_bytes, n, headers>>

-----------------------------------------------------------------------------
(* Part Catalog Builder: get_info *)

\* faulty variant: the destination gets a first byte before the scan
GetInfoStartWritesAhead ==
    /\ pc = "get_info"
    /\ pos' = 0
    /\ ret_vec' = << >>
    /\ slice_i' = 0
    /\ in_offset' = 0
    /\ dst' = WriteAt(dst, WOfInt(0), <<0>>)
    /\ pc' = "slice_loop"
    /\ UNCHANGED <<gen, src_state, src_bytes, err, metadata_len, parts,
                   read_parts, stop_reason, info, report, wi, part_buf,
                   part_bytes, n, headers>>

\* lines 214..219
GetInfoStart ==
    /\ pc = "get_info"
    /\ pos' = 0
    /\ ret_vec' = << >>
    /\ slice_i' = 0
    /\ in_offset' = 0
    /\ pc' = "slice_loop"
    /\ UNCHANGED <<gen, src_state, src_bytes, dst, err, metadata_len, parts,
                   read_parts, stop_reason, info, report, wi, part_buf,
                   part_bytes, n, headers>>

\* faulty variant: the outer loop goes on with the cursor at the file length
ScanContinuesAtEnd(in_off, len) == in_off <= len

\* line 221: the test of the outer loop
ScanContinues(in_off, len) == in_off < len

\* lines 221..239: the test of the outer loop and the header of a slice
ReadSliceHeader ==
    /\ pc = "slice_loop"
    /\ IF ~ScanContinues(in_offset, metadata_len)
       THEN /\ stop_reason' = "end"
            /\ pc' = "order"
            /\ UNCHANGED <<pos, parts, read_parts, headers>>
       ELSE IF ~CanReadU32(src_bytes, pos)
       THEN /\ stop_reason' = "eof"
            /\ pc' = "order"
            /\ pos' = Max(pos, Len(src_bytes))
            /\ UNCHANGED <<parts, read_parts, headers>>
       ELSE /\ pos' = pos + 4
            /\ headers' = Append(headers, [at |-> pos, len |-> 4])
            /\ IF BadPartsCount(ReadU32(src_bytes, pos))
               THEN /\ stop_reason' = "bad_count"
                    /\ pc' = "order"
                    /\ UNCHANGED <<parts, read_parts>>
               ELSE /\ parts' = ToInt(ReadU32(src_bytes, pos))
                    /\ read_parts' = 0
                    /\ pc' = "part_loop"
                    /\ UNCHANGED stop_reason
    /\ UNCHANGED <<gen, src_state, src_bytes, dst, err, metadata_len, in_offset,
                   slice_i, ret_vec, info, report, wi, part_buf, part_bytes,
                   n>>

\* faulty variant: keeps the in_offset of line 242, the offset of the part header
StalePartInfo(p, out_offset, part_size) ==
    [in_offset |-> p, out_offset |-> out_offset, part_size |-> part_size]

\* lines 254..256: the descriptor of the part whose header was read at cursor p;
\* in_offset is the cursor after the two fields of the header
NewPartInfo(p, out_offset, part_size) ==
    [in_offset |-> p + 8, out_offset |-> out_offset, part_size |-> part_size]

\* lines 241..261: the test of the inner loop and one part
ReadPartHeader ==
    /\ pc = "part_loop"
    /\ IF read_parts >= parts
       THEN /\ slice_i' = slice_i + 1
            /\ pc' = "slice_loop"
            /\ UNCHANGED <<pos, in_offset, read_parts, ret_vec, stop_reason, err,
                           headers>>
       ELSE IF ~CanReadU32(src_bytes, pos + 4)
       THEN /\ in_offset' = pos
            /\ headers' = IF CanReadU32(src_bytes, pos)
                          THEN Append(headers, [at |-> pos, len |-> 4])
                          ELSE headers
            /\ pos' = Max(pos, Len(src_bytes))
            /\ pc' = "failed"
            /\ err' = "TruncatedRead"
            /\ UNCHANGED <<slice_i, read_parts, ret_vec, stop_reason>>
       ELSE LET out_offset == ReadU32(src_bytes, pos)
                part_size  == ReadU32(src_bytes, pos + 4)
            IN  /\ headers' = Append(headers, [at |-> pos, len |-> 8])
                /\ IF BadPartSize(part_size)
                   THEN /\ in_offset' = pos
                        /\ pos' = pos + 8
                        /\ stop_reason' = "bad_size"
                        /\ pc' = "order"
                        /\ UNCHANGED <<slice_i, read_parts, ret_vec, err>>
                   ELSE /\ ret_vec' = Append(ret_vec,
                               NewPartInfo(pos, out_offset, ToInt(part_size)))
                        /\ pos' = pos + 8 + ToInt(part_size)
                        /\ in_offset' = pos + 8 + ToInt(part_size)
                        /\ read_parts' = read_parts + 1
                        /\ pc' = "part_loop"
                        /\ UNCHANGED <<slice_i, stop_reason, err>>
    /\ UNCHANGED <<gen, src_state, src_bytes, dst, metadata_len, parts, info,
                   report, wi, part_buf, part_bytes, n>>

\* line 263 and order_and_report_info; overflow_checks is the build's setting:
\* with it an overflowing u32 operation panics, without it the operation wraps
OrderAndReport ==
    /\ pc = "order"
    /\ info' = SortByKey(ret_vec)
    /\ IF Len(ret_vec) <= 1
       THEN /\ report' = NoReport
            /\ pc' = "write_loop"
       ELSE \E overflow_checks \in BOOLEAN :
              IF overflow_checks /\ ArithmeticOverflows(info')
              THEN /\ report' = NoReport
                   /\ pc' = "panicked"
              ELSE /\ report' = Report(info')
                   /\ pc' = "write_loop"
    /\ UNCHANGED <<gen, src_state, src_bytes, dst, err, pos, metadata_len,
                   in_offset, slice_i, parts, read_parts, ret_vec, stop_reason,
                   wi, part_buf, part_bytes, n, headers>>

-----------------------------------------------------------------------------
(* Stream Reconstructor: write_to_deserialized_file and read_part *)

\* what one self.file.read(&mut self.rd_buf) may return at cursor p
ReadLens(p) ==
    IF p >= Len(src_bytes) THEN {0}
    ELSE 1..Min(Min(RdBufLen, MaxChunk), Len(src_bytes) - p)

\* lines 267..269 and 152..154: the catalog is there; seek the source to the
\* payload of the first descriptor, or end at once if there is none
WriteLoop ==
    /\ pc = "write_loop"
    /\ IF wi > Len(info)
       THEN /\ pc' = "done"
            /\ UNCHANGED <<pos, part_buf, n>>
       ELSE /\ pos' = info[wi].in_offset
            /\ part_buf' = << >>
            /\ n' = -1
            /\ pc' = "read_part"
    /\ UNCHANGED <<gen, src_state, src_bytes, dst, err, metadata_len, in_offset,
                   slice_i, parts, read_parts, ret_vec, stop_reason, info, report,
                   wi, part_bytes, headers>>

\* faulty variant: keeps every byte the read returned
KeepAll(got, part_size, have) == got

\* line 158: n2, the bytes of a read of got bytes that are kept when part_buf
\* holds have bytes of a part of part_size bytes
Keep(got, part_size, have) == Min(got, part_size - have)

\* lines 156..164: one read of the loop 'rd. When it completes the part:
\* lines 175..176 and 271..274, read_part returns part_bytes, it is written at
\* out_offset, and lines 268..269 and 152..154 for the next descriptor
ReadChunk ==
    /\ pc = "read_part"
    /\ \E got \in ReadLens(pos) :
          LET n2  == Keep(got, info[wi].part_size, Len(part_buf))
              buf == part_buf \o SubSeq(src_bytes, pos + 1, pos + n2)
          IN  IF Len(buf) # info[wi].part_size
              THEN /\ n' = got
                   /\ part_buf' = buf
                   /\ pos' = pos + got
                   /\ UNCHANGED <<pc, dst, wi, part_bytes>>
              ELSE /\ part_bytes' = buf
                   /\ dst' = WriteAt(dst, info[wi].out_offset, buf)
                   /\ wi' = wi + 1
                   /\ IF wi + 1 > Len(info)
                      THEN /\ pc' = "done"
                           /\ n' = got
                           /\ part_buf' = buf
                           /\ pos' = pos + got
                      ELSE /\ pc' = "read_part"
                           /\ n' = -1
                           /\ part_buf' = << >>
                           /\ pos' = info[wi + 1].in_offset
    /\ UNCHANGED <<gen, src_state, src_bytes, err, metadata_len, in_offset,
                   slice_i, parts, read_parts, ret_vec, stop_reason, info, report, headers>>

-----------------------------------------------------------------------------

Next ==
    \/ SerializedFile_from_name
    \/ DeserializedFile_from_name
    \/ GetInfoStart
    \/ ReadSliceHeader
    \/ ReadPartHeader
    \/ OrderAndReport
    \/ WriteLoop
    \/ ReadChunk

Spec == Init /\ [][Next]_vars

\* the analyzer alone, on the catalogs of one-slice files
NextOrder == OrderAndReport

SpecOrder == InitOrder /\ [][NextOrder]_vars

\* lines 214..262: get_info alone. It is straight-line code between its reads,
\* so a scan that can take a step takes it
NextScan ==
    \/ GetInfoStart
    \/ ReadSliceHeader
    \/ ReadPartHeader
SpecScan == InitScan /\ [][NextScan]_vars /\ WF_vars(NextScan)

-----------------------------------------------------------------------------
(* Vocabulary of the properties *)

\* write_to_deserialized_file has been entered: both files are open
Started == src_state = "ok" /\ pc \notin {"main", "open_dst"} /\ err # "PathError"

\* the scan has ended without an error
PastScan == pc \in {"order", "write_loop", "read_part", "done", "panicked"}

\* order_and_report_info has been called
PastOrder == pc \in {"write_loop", "read_part", "done", "panicked"}

\* the destination ranges of the parts are pairwise disjoint
NoOverlap(ps) ==
    \A i, j \in 1..Len(ps) :
        i < j => \/ WLeq(EndOf(ps[i]), ps[j].out_offset)
                 \/ WLeq(EndOf(ps[j]), ps[i].out_offset)

\* every payload byte of part i is at its place in the destination
PayloadInPlace(i) ==
    \A k \in 0..(gen.parts[i].part_size - 1) :
        DstByte(dst, WAddInt(gen.parts[i].out_offset, k))
            = Payload(i, gen.parts[i].part_size)[k + 1]

\* sorted entry j (1-based) starts where entry j - 1 ends
StartsAtEndOfPrevious(v, j) == v[j].out_offset = EndOf(v[j - 1])

\* 0-based index of the last entry of the gap-free run that begins at the first entry
PrefixRunEnd(v) ==
    CHOOSE i \in 0..(Len(v) - 1) :
        /\ \A j \in 1..i : StartsAtEndOfPrevious(v, j + 1)
        /\ i = Len(v) - 1 \/ ~StartsAtEndOfPrevious(v, i + 2)

FullyContiguous(v) == \A j \in 2..Len(v) : StartsAtEndOfPrevious(v, j)

\* max(dest_offset + size) over the catalog, 0 if it is empty
RECURSIVE MaxEnd(_)
MaxEnd(v) ==
    IF v = << >> THEN WOfInt(0)
    ELSE WMax(EndOf(Head(v)), MaxEnd(Tail(v)))

Occurrences(v, x) == Cardinality({i \in 1..Len(v) : v[i] = x})

IsPermutation(a, b) ==
    /\ Len(a) = Len(b)
    /\ \A i \in 1..Len(b) : Occurrences(a, b[i]) = Occurrences(b, b[i])

-----------------------------------------------------------------------------
(* Properties *)

\* C1: for a source file of well-formed slices whose destination ranges do not
\* overlap, the run succeeds and every payload byte is at dest_offset + k
RoundTrip ==
    (Started /\ gen.ending.kind = "clean" /\ NoOverlap(gen.parts))
        => /\ pc \notin {"failed", "panicked"}
           /\ pc = "done" => \A i \in 1..Len(gen.parts) : PayloadInPlace(i)

\* the round trip of the runs that do not panic in the analysis
RoundTripUnlessPanic ==
    (Started /\ gen.ending.kind = "clean" /\ NoOverlap(gen.parts))
        => /\ pc # "failed"
           /\ pc = "done" => \A i \in 1..Len(gen.parts) : PayloadInPlace(i)

\* C2: once a read finds the source exhausted before part_size bytes are
\* delivered, the run has stopped with the error ShortPayloadRead
ShortPayloadReadIsFatal ==
    (Started /\ n = 0 /\ wi <= Len(info) /\ Len(part_buf) < info[wi].part_size)
        => pc = "failed" /\ err = "ShortPayloadRead"

\* C3: end of file inside a slice header or a part header does not fail the run
HeaderEofIsNotFatal ==
    (Started /\ gen.ending.kind \in {"shorthdr", "eofparthdr"}) => pc # "failed"

\* end of file inside a slice header does not fail the run
SliceHeaderEofIsNotFatal ==
    (Started /\ gen.ending.kind = "shorthdr")
        => pc # "failed" /\ (PastScan => stop_reason = "eof" /\ ret_vec = GoodCatalog(gen))

\* C4: last_contiguous is the last entry of the gap-free run that begins at the
\* first entry, and last_contiguous_offset is the end of that entry (stated for
\* the catalogs without overlap whose sums out_offset + part_size are below 2^32)
LastContiguousIsPrefixRunEnd ==
    (report.analysed /\ NoOverlap(info) /\ \A i \in 1..Len(info) : IsU32(EndOf(info[i])))
        => /\ report.last_contigous_i = PrefixRunEnd(info)
           /\ report.last_contiguous_offset = EndOf(info[PrefixRunEnd(info) + 1])

\* C5: the analysis of a fully contiguous catalog of two or more descriptors
\* completes with discontinuity_len = 0
ContiguousCatalogHasNoDiscontinuity ==
    (PastOrder /\ Len(info) >= 2 /\ FullyContiguous(info))
        => /\ pc # "panicked"
           /\ report.analysed
           /\ report.discontinuity_len = WOfInt(0)

\* C6: a part_count of 0 or above 80 stops the scan before any part of that
\* slice is read, without an error, and the catalog is exactly the descriptors
\* of the prior slices
BadPartsCountStopsScan ==
    /\ stop_reason = "bad_count"
         => /\ gen.ending.kind = "badcount"
            /\ PastScan
            /\ ret_vec = GoodCatalog(gen)
            /\ pc = "order" => pos = Len(GoodBytes(gen, 1)) + 4
    /\ (Started /\ gen.ending.kind = "badcount")
         => /\ pc # "failed"
            /\ PastScan => stop_reason = "bad_count"
            /\ PastOrder => IsPermutation(info, GoodCatalog(gen))

BadPartsCountWitness ==
    /\ stop_reason = "bad_count"
    /\ gen.ending.val = MAX_PARTS_COUNT + 1
    /\ Len(ret_vec) = 2
    /\ gen.cuts = {1}
    /\ pc = "done"

\* C7: a part size of 0 or above 131072 stops the scan at that part, without an
\* error and without recording it or the rest of the slice; the catalog is
\* exactly the descriptors recorded before it
BadPartSizeStopsScan ==
    /\ stop_reason = "bad_size"
         => /\ gen.ending.kind = "badsize"
            /\ PastScan
            /\ ret_vec = GoodCatalog(gen)
            /\ read_parts + DeclaredExtra(gen.ending) = parts
            /\ pc = "order" => pos + Len(RemainingPart) = Len(src_bytes)
    /\ (Started /\ gen.ending.kind = "badsize")
         => /\ pc # "failed"
            /\ PastScan => stop_reason = "bad_size"
            /\ PastOrder => IsPermutation(info, GoodCatalog(gen))

BadPartSizeWitness ==
    /\ stop_reason = "bad_size"
    /\ gen.ending.val = 0
    /\ gen.ending.open
    /\ gen.cuts = {1}
    /\ Len(ret_vec) = 2
    /\ pc = "done"

\* C8: after a successful run the length of the destination is the maximum of
\* dest_offset + size over the catalog, 0 for an empty catalog
LengthIsMaxEnd ==
    (Started /\ pc = "done") => dst.len = MaxEnd(ret_vec)

\* a successful run whose parts overlap and leave a hole
LengthIsMaxEndWitness ==
    /\ Started /\ pc = "done"
    /\ Len(ret_vec) = 2
    /\ ~NoOverlap(ret_vec)
    /\ WOfInt(0) \notin DOMAIN dst.data
    /\ dst.len = MaxEnd(ret_vec)

\* C9: the sorted catalog is a permutation of the catalog, non-decreasing in
\* out_offset, and descriptors of equal out_offset keep their discovery order
\* (in_offset grows in discovery order)
SortIsStablePermutation ==
    PastOrder
        => /\ IsPermutation(info, ret_vec)
           /\ \A i \in 2..Len(info) : WLeq(info[i - 1].out_offset, info[i].out_offset)
           /\ \A i, j \in 1..Len(info) :
                (i < j /\ info[i].out_offset = info[j].out_offset)
                    => info[i].in_offset < info[j].in_offset

\* a catalog that the sort reorders and that has two descriptors of equal out_offset
SortIsStablePermutationWitness ==
    /\ PastOrder
    /\ Len(info) = 3
    /\ info # ret_vec
    /\ \E i \in 1..2 : info[i].out_offset = info[i + 1].out_offset

\* C10: a path error creates no partial output: an existing destination makes
\* the run fail and is left as it was; a missing or unreadable source makes the
\* run fail with the destination path untouched
PathErrorsLeaveNoOutput ==
    /\ [][ /\ (pc = "main" /\ src_state # "ok") => (pc' = "failed" /\ dst' = dst)
           /\ (pc = "open_dst" /\ dst.exists) => (pc' = "failed" /\ dst' = dst)
           /\ pc = "failed" => dst' = dst ]_vars
    /\ [](pc = "failed" /\ err = "PathError" => dst \in {Absent, Existing})

PathErrorsWitness ==
    /\ pc = "failed" /\ err = "PathError"
    /\ src_state = "ok"
    /\ dst = Existing

\* -------------------------------------------------------------------------
\* the source ranges of the catalog

\* the source bytes [from, from + len) and [from2, from2 + len2) share no byte
Disjoint(from, len, from2, len2) == from + len <= from2 \/ from2 + len2 <= from

\* the position in headers of the part header that descriptor d belongs to
HeaderOf(d) ==
    {h \in 1..Len(headers) : headers[h].len = 8 /\ headers[h].at + 8 = d.in_offset}

\* C11: every recorded descriptor has in_offset equal to the offset of its own
\* part header plus 8, the next header the scan reads (of a part or of a slice)
\* starts exactly at in_offset + part_size, and so the payload ranges of
\* distinct descriptors are pairwise disjoint and hold no decoded header byte.
PayloadRangesAreExact ==
    Started =>
        /\ \A i \in 1..Len(ret_vec) :
              LET d == ret_vec[i]
              IN  /\ Cardinality(HeaderOf(d)) = 1
                  /\ \A h \in HeaderOf(d) :
                        IF h < Len(headers)
                        THEN headers[h + 1].at = d.in_offset + d.part_size
                        ELSE pc \in {"slice_loop", "part_loop"}
                                 => pos = d.in_offset + d.part_size
                  /\ \A j \in 1..Len(ret_vec) :
                        j # i => Disjoint(d.in_offset, d.part_size,
                                          ret_vec[j].in_offset, ret_vec[j].part_size)
                  /\ \A h \in 1..Len(headers) :
                        Disjoint(d.in_offset, d.part_size,
                                 headers[h].at, headers[h].len)
        /\ Cardinality({h \in 1..Len(headers) : headers[h].len = 8}) >= Len(ret_vec)

\* a scan that recorded a part, then read the header of the next slice right
\* after its payload, and recorded a part of that slice too
PayloadRangesWitness ==
    /\ Started
    /\ \E h \in 2..(Len(headers) - 1) :
          /\ headers[h].len = 4
          /\ headers[h - 1].len = 8
          /\ headers[h + 1].len = 8
          /\ \E i \in 1..(Len(ret_vec) - 1) :
                /\ ret_vec[i].in_offset = headers[h - 1].at + 8
                /\ ret_vec[i].part_size > 0
                /\ ret_vec[i + 1].in_offset = headers[h + 1].at + 8

\* -------------------------------------------------------------------------
\* read_part under short reads

\* the source holds the whole payload of descriptor d
SourceHolds(d) == d.in_offset + d.part_size <= Len(src_bytes)

\* the first k payload bytes of descriptor d in the source
SourcePrefix(d, k) == SubSeq(src_bytes, d.in_offset + 1, d.in_offset + k)

\* C12: read_part tolerates short reads: when the source holds at least
\* part_size bytes from the position of the part, every read of 1..4096 bytes
\* either grows part_buf by at least one byte, to a strict prefix of the payload,
\* or completes the part (so the loop ends within part_size reads), and the
\* bytes returned are exactly the source bytes [in_offset, in_offset + part_size),
\* none of the bytes beyond the part that the last read may have returned.
ReadPartIsExact ==
    [][(pc = "read_part" /\ SourceHolds(info[wi])) =>
          LET d == info[wi]
          IN  /\ Len(part_buf) < d.part_size
              /\ part_buf = SourcePrefix(d, Len(part_buf))
              /\ pos >= d.in_offset + Len(part_buf)
              /\ IF wi' = wi
                 THEN /\ pc' = "read_part"
                      /\ n' \in 1..RdBufLen
                      /\ Len(part_buf') > Len(part_buf)
                      /\ Len(part_buf') < d.part_size
                      /\ part_buf' = SourcePrefix(d, Len(part_buf'))
                      /\ UNCHANGED dst
                 ELSE /\ wi' = wi + 1
                      /\ part_bytes' = SourcePrefix(d, d.part_size)
                      /\ dst' = WriteAt(dst, d.out_offset, SourcePrefix(d, d.part_size))
    ]_vars

\* the last part copied has 2 bytes and came in two reads: a short read of 1
\* byte, then a read of 2 bytes, one of them beyond the part, which was dropped
ReadPartWitness ==
    /\ pc = "done"
    /\ Len(info) >= 1
    /\ LET d == info[Len(info)]
       IN  /\ d.part_size = 2
           /\ n = 2
           /\ pos = d.in_offset + d.part_size + 1
           /\ part_bytes = SourcePrefix(d, 2)
           /\ part_bytes # SubSeq(src_bytes, d.in_offset + 2, d.in_offset + 3)

\* -------------------------------------------------------------------------
\* termination of the scan

Scanning == pc \in {"slice_loop", "part_loop"}
ScanOver == pc \in {"order", "failed"}

\* one step of the scan: the header of a slice moves the cursor by 4, a part by
\* at least 9, the end of a slice leaves it, and at or past the file length
\* the outer loop ends without a read
ScanStepAdvances ==
    /\ pc = "slice_loop" =>
          /\ in_offset = pos
          /\ IF in_offset >= metadata_len
             THEN /\ pc' = "order"
                  /\ stop_reason' = "end"
                  /\ UNCHANGED <<pos, headers, ret_vec>>
             ELSE \/ pc' = "part_loop" /\ pos' = pos + 4 /\ parts' >= 1
                                       /\ read_parts' = 0
                  \/ pc' = "order" /\ pos' >= pos
    /\ pc = "part_loop" =>
          IF read_parts >= parts
          THEN /\ pc' = "slice_loop"
               /\ read_parts >= 1
               /\ UNCHANGED <<pos, headers>>
               /\ in_offset = pos
          ELSE \/ /\ pc' = "part_loop"
                  /\ pos' >= pos + 9
                  /\ in_offset' = pos'
                  /\ read_parts' = read_parts + 1
                  /\ UNCHANGED parts
               \/ pc' \in {"order", "failed"} /\ pos' >= pos

\* every header the scan decoded lies after the one before it
HeadersAscend ==
    \A h \in 1..(Len(headers) - 1) :
        headers[h].at + headers[h].len <= headers[h + 1].at

\* C13: the scan of get_info terminates on every finite source file: every
\* slice iteration and every part iteration strictly advances the cursor, and
\* the scan is over (done, or a fatal error) at the latest once the cursor is at
\* or past the file length after a slice, without reading another slice header.
ScanTerminates ==
    /\ [][Scanning => ScanStepAdvances]_vars
    /\ [](Started => HeadersAscend)
    /\ [](Scanning /\ parts > 0 => parts <= MAX_PARTS_COUNT /\ read_parts <= parts)
    /\ <>ScanOver

\* the scan ended at the test of the outer loop, with the cursor past the file
\* length after the seek over the last payload, having scanned two slices
ScanTerminatesWitness ==
    /\ pc = "order"
    /\ stop_reason = "end"
    /\ in_offset > metadata_len
    /\ Len(ret_vec) >= 2
    /\ \E h \in 2..Len(headers) : headers[h].len = 4

\* -------------------------------------------------------------------------
\* the phases of a run

\* the run is in the scan or the analysis, or it failed in one of them
BeforeWrites ==
    /\ Started
    /\ pc \in {"get_info", "slice_loop", "part_loop", "order", "failed", "panicked"}

\* C14: no byte is written to the destination before the scan and the
\* sort/analysis have both finished, so a run that fails during the scan or the
\* analysis leaves the destination created but with zero bytes written; the
\* destination changes only when it is created and when a part read from the
\* sorted catalog is written.
WritesComeLast ==
    /\ [](BeforeWrites => dst = Created)
    /\ [][dst' # dst =>
             \/ pc = "open_dst" /\ dst' = Created
             \/ /\ pc = "read_part"
                /\ Len(ret_vec) >= 2 => report.analysed
                /\ info = SortByKey(ret_vec)
                /\ dst' = WriteAt(dst, info[wi].out_offset, part_bytes')]_vars

\* a run that failed in the scan after it had recorded a part
FailedScanWitness ==
    /\ pc = "failed"
    /\ err = "TruncatedRead"
    /\ Len(ret_vec) >= 1
    /\ dst = Created

\* -------------------------------------------------------------------------
\* overlapping destination ranges

\* descriptor j of the scan comes after descriptor i in the order of the copy:
\* a greater out_offset, or the same out_offset and discovered later
CopiedAfter(i, j) ==
    \/ WLess(ret_vec[i].out_offset, ret_vec[j].out_offset)
    \/ ret_vec[i].out_offset = ret_vec[j].out_offset /\ i < j

\* descriptor i of the scan covers byte p of the destination
Covers(i, p) ==
    /\ WLeq(ret_vec[i].out_offset, p)
    /\ WLess(p, WAddInt(ret_vec[i].out_offset, ret_vec[i].part_size))

\* the destination ranges of descriptors i and j of the scan share a byte
Overlap(i, j) ==
    \E k \in 0..(ret_vec[i].part_size - 1) :
        Covers(j, WAddInt(ret_vec[i].out_offset, k))

\* C15: the reconstructor copies each descriptor exactly once, in non-decreasing
\* out_offset order (discovery order on ties), so when the destination ranges of
\* two parts overlap, every output byte in the overlap equals the corresponding
\* payload byte of the part that is later in the sorted order.
LaterPartWins ==
    /\ [][wi' # wi =>
             /\ wi' = wi + 1
             /\ wi <= Len(info)
             /\ Len(info) = Len(ret_vec)
             /\ wi > 1 => WLeq(info[wi - 1].out_offset, info[wi].out_offset)
             /\ \E i \in 1..Len(ret_vec) :
                   /\ ret_vec[i] = info[wi]
                   /\ Cardinality({j \in 1..Len(ret_vec) :
                                      CopiedAfter(j, i)}) = wi - 1
             /\ dst' = WriteAt(dst, info[wi].out_offset,
                               SourcePrefix(info[wi], info[wi].part_size))]_vars
    /\ [](pc = "done" =>
             /\ wi = Len(info) + 1
             /\ \A j \in 1..Len(ret_vec) :
                   \A k \in 0..(ret_vec[j].part_size - 1) :
                       LET p == WAddInt(ret_vec[j].out_offset, k)
                       IN  (\A i \in 1..Len(ret_vec) :
                                ~(CopiedAfter(j, i) /\ Covers(i, p)))
                           => DstByte(dst, p)
                                  = src_bytes[ret_vec[j].in_offset + k + 1])

\* a finished run with two parts whose destination ranges overlap in a byte
\* where their payloads differ
LaterPartWinsWitness ==
    /\ pc = "done"
    /\ \E i, j \in 1..Len(ret_vec) :
          /\ CopiedAfter(i, j)
          /\ Overlap(i, j)
          /\ \E k \in 0..(ret_vec[i].part_size - 1) :
                LET p == WAddInt(ret_vec[i].out_offset, k)
                IN  /\ Covers(j, p)
                    /\ src_bytes[ret_vec[i].in_offset + k + 1] # DstByte(dst, p)

\* -------------------------------------------------------------------------
\* the sums of the analysis

\* C16: for every catalog the scan can produce (out_offset any u32, part_size
\* in 1..131072) every sum out_offset + part_size that order_and_report_info
\* computes in u32 equals the true sum, that is, never exceeds 2^32 - 1, so the
\* analysis neither aborts nor wraps on a parsed file.
AnalysisSumsFitU32 ==
    (PastOrder /\ Len(info) >= 2) => ~SumOverflows(info)

====
